---- MODULE Spec2Model ----
(***************************************************************************)
(* A model of mwccgap (src/mwccgap/mwccgap.py): the assembly scan and the  *)
(* stub rewriter of preprocess_c_file, and the splicing pipeline of        *)
(* process_c_file.  Text is modelled as sequences of tokens; the string     *)
(* tests of the code (startswith, endswith, find, split, strip, rstrip)    *)
(* act on those tokens.  The Elf class lives in mwccgap/elf.py, which is    *)
(* not part of src/; its operations are modelled from spec.md sections 3    *)
(* and 4.1.                                                                 *)
(***************************************************************************)
EXTENDS Integers, Sequences, FiniteSets, TLC

VARIABLES
    asmFile,      \* SpecScan: the lines of the assembly file being scanned
    carry,        \* SpecScan: rodata_symbol as an earlier file left it
    scan,         \* SpecScan: the result of the scan
    tu,           \* the lines of the C translation unit (c_file)
    fs,           \* the assembly files on disk, by function name
    asmOut,       \* what the external assembler produces for each file
    pc,           \* position in process_c_file / preprocess_c_file
    err,          \* the exception raised, "" when none
    pre,          \* the result of preprocess_c_file
    obj_bytes,    \* the object read back from the compiler
    asm_files,    \* the filtered list of assembly files
    compiled_elf, \* the compiled object being spliced into
    sh_names,     \* rel_text_sh_name and rel_rodata_sh_name
    precompiled_elf, \* the precompiled object, parsed
    k,            \* index of the next assembly file to splice
    o_file,       \* the output path: absent, or what it holds
    log           \* what the run did: tools invoked, last splice's record

vars == << asmFile, carry, scan, tu, fs, asmOut, pc, err, pre, obj_bytes,
           asm_files, compiled_elf, sh_names, precompiled_elf, k, o_file, log >>

(***************************************************************************)
(* Bounds of the model.                                                    *)
(***************************************************************************)
MaxAsmLines == 3
MaxLines == 2
MaxUnitLines == 3
MaxAsmText == 3
MaxEntries == 2

(***************************************************************************)
(* Generic helpers on sequences.                                           *)
(***************************************************************************)
Range(s) == { s[i] : i \in 1..Len(s) }

SeqsUpTo(S, n) == UNION { [1..m -> S] : m \in 0..n }

RECURSIVE Flatten(_)
Flatten(ss) == IF ss = << >> THEN << >> ELSE Head(ss) \o Flatten(Tail(ss))

Repeat(x, n) == [i \in 1..n |-> x]

(***************************************************************************)
(* Names.  A name is a sequence of tokens; FUNCTION_PREFIX is one token.   *)
(***************************************************************************)
FUNCTION_PREFIX == << "mwccgap_" >>

StartsWith(s, p) == Len(s) >= Len(p) /\ SubSeq(s, 1, Len(p)) = p

EndsWith(s, p) == Len(s) >= Len(p) /\ SubSeq(s, Len(s) - Len(p) + 1, Len(s)) = p

\* name[len(FUNCTION_PREFIX):]
DropPrefix(name) == SubSeq(name, Len(FUNCTION_PREFIX) + 1, Len(name))

(***************************************************************************)
(* The assembly scan of preprocess_c_file (lines 87-144).                  *)
(* An assembly line is a sequence of tokens that single spaces separate;   *)
(* "ws" is leading or trailing white space.                                *)
(***************************************************************************)
Unbound == "<unbound>"

RECURSIVE LStrip(_)
LStrip(l) == IF l # << >> /\ Head(l) = "ws" THEN LStrip(Tail(l)) ELSE l

RECURSIVE RStrip(_)
RStrip(l) ==
    IF l # << >> /\ l[Len(l)] = "ws" THEN RStrip(SubSeq(l, 1, Len(l) - 1)) ELSE l

Strip(l) == LStrip(RStrip(l))

\* asm_line.find(" .word ") > -1: the token with a space on both sides
HasWord(l) == \E i \in 2..(Len(l) - 1) : l[i] = ".word"

\* lines 122-142: the kinds of line that are not instructions
\* variant: .balign lines counted as instructions
IsSkippedTextNoBalign(l) ==
    \/ StartsWith(l, << ".set" >>)
    \/ StartsWith(l, << ".include" >>)
    \/ StartsWith(l, << ".size" >>)
    \/ StartsWith(l, << ".align" >>)
    \/ StartsWith(l, << "glabel" >>) \/ StartsWith(l, << "jlabel" >>)
    \/ (StartsWith(l, << ".L" >>) /\ EndsWith(l, << ":" >>))
    \/ StartsWith(l, << "/* Generated by spimdisasm" >>)

IsSkippedText(l) ==
    \/ StartsWith(l, << ".set" >>)
    \/ StartsWith(l, << ".include" >>)
    \/ StartsWith(l, << ".size" >>)
    \/ StartsWith(l, << ".align" >>) \/ StartsWith(l, << ".balign" >>)
    \/ StartsWith(l, << "glabel" >>) \/ StartsWith(l, << "jlabel" >>)
    \/ (StartsWith(l, << ".L" >>) /\ EndsWith(l, << ":" >>))
    \/ StartsWith(l, << "/* Generated by spimdisasm" >>)

\* rodata_entries is a dict: keys in insertion order, an assignment to a key
\* that is present keeps its place
DictHas(d, key) == \E i \in 1..Len(d) : d[i].sym = key

DictSet(d, key, v) ==
    IF DictHas(d, key)
    THEN [i \in 1..Len(d) |-> IF d[i].sym = key THEN [sym |-> key, size |-> v] ELSE d[i]]
    ELSE Append(d, [sym |-> key, size |-> v])

DictGet(d, key) == (CHOOSE i \in 1..Len(d) : d[i].sym = key)

\* the scan state: in_rodata, rodata_entries, nops_needed, rodata_symbol, and
\* the exception that ended the scan
ScanInit(sym0) ==
    [in_rodata |-> FALSE, rodata_entries |-> << >>, nops_needed |-> 0,
     rodata_symbol |-> sym0, err |-> "", at |-> 0]

\* lines 107-120: one line met while in_rodata is set
RodataLine(l, st, i) ==
    IF StartsWith(l, << ".align" >>) THEN st
    ELSE IF StartsWith(l, << ".size" >>) THEN st
    ELSE IF StartsWith(l, << "glabel" >>) THEN
        IF Len(l) # 2 THEN [st EXCEPT !.err = "ValueError", !.at = i]
        ELSE [st EXCEPT !.rodata_symbol = l[2],
                        !.rodata_entries = DictSet(st.rodata_entries, l[2], 0)]
    ELSE IF HasWord(l) THEN
        IF st.rodata_symbol = Unbound
        THEN [st EXCEPT !.err = "UnboundLocalError", !.at = i]
        ELSE IF ~DictHas(st.rodata_entries, st.rodata_symbol)
        THEN [st EXCEPT !.err = "KeyError", !.at = i]
        ELSE [st EXCEPT !.rodata_entries =
                 DictSet(@, st.rodata_symbol,
                         @[DictGet(@, st.rodata_symbol)].size + 4)]
    ELSE [st EXCEPT !.err = "UnsupportedRodataEntry", !.at = i]

\* lines 92-144: one line of the file
ScanLine(raw, st, i) ==
    LET l == Strip(raw) IN
    IF l = << >> THEN st
    ELSE IF StartsWith(l, << ".section" >>) THEN
        IF EndsWith(l, << ".text" >>) THEN [st EXCEPT !.in_rodata = FALSE]
        ELSE IF EndsWith(l, << ".rodata" >>) THEN [st EXCEPT !.in_rodata = TRUE]
        ELSE [st EXCEPT !.err = "UnsupportedSectionDirective", !.at = i]
    ELSE IF st.in_rodata THEN RodataLine(l, st, i)
    ELSE IF IsSkippedText(l) THEN st
    ELSE [st EXCEPT !.nops_needed = @ + 1]

RECURSIVE ScanFrom(_, _, _)
ScanFrom(file, i, st) ==
    IF i > Len(file) \/ st.err # "" THEN st
    ELSE ScanFrom(file, i + 1, ScanLine(file[i], st, i))

\* lines 87-144: the scan of one assembly file; sym0 is rodata_symbol as the
\* scan of an earlier file of the same translation unit left it
ScanAsm(file, sym0) == ScanFrom(file, 1, ScanInit(sym0))

(***************************************************************************)
(* SpecScan: the scan applied to every file of at most MaxAsmLines lines.  *)
(***************************************************************************)
AsmLineKinds ==
    { << >>, << "ws" >>,
      << ".section", ".text" >>, << ".section", ".rodata" >>,
      << ".section", ".data" >>,
      << ".set", "x" >>, << ".include", "x" >>, << ".size", "x" >>,
      << ".align", "x" >>, << ".balign", "x" >>,
      << "glabel", "D1" >>, << "glabel", "D2" >>, << "jlabel", "D1" >>,
      << ".L", "1", ":" >>, << "/* Generated by spimdisasm" >>,
      << "/**/", ".word", "v" >>, << "ws", "insn" >> }

Idle == << >>

InitScan ==
    /\ asmFile \in SeqsUpTo(AsmLineKinds, MaxAsmLines)
    /\ carry \in { Unbound, "D0" }
    /\ scan = ScanInit(carry)
    /\ pc = "scan"
    /\ err = ""
    /\ tu = Idle /\ fs = Idle /\ asmOut = Idle /\ pre = Idle
    /\ obj_bytes = Idle /\ asm_files = Idle /\ compiled_elf = Idle
    /\ sh_names = Idle /\ precompiled_elf = Idle /\ k = 0
    /\ o_file = Idle /\ log = Idle

ScanFile ==
    /\ pc = "scan"
    /\ scan' = ScanAsm(asmFile, carry)
    /\ pc' = "scanned"
    /\ UNCHANGED << asmFile, carry, tu, fs, asmOut, err, pre, obj_bytes,
                    asm_files, compiled_elf, sh_names, precompiled_elf, k,
                    o_file, log >>

NextScan == ScanFile

SpecScan == InitScan /\ [][NextScan]_vars

(***************************************************************************)
(* What the claims say of the scan, stated on the file itself.             *)
(***************************************************************************)
IsSection(l) == l # << >> /\ Head(l) = ".section"

\* the flag as line i is met: set by the last '.rodata' section directive
\* before i, cleared by the last '.text' one, false at the start
FlagAt(file, i) ==
    LET S == { j \in 1..(i - 1) :
                 /\ IsSection(Strip(file[j]))
                 /\ Strip(file[j])[Len(Strip(file[j]))] \in { ".text", ".rodata" } }
    IN  /\ S # {}
        /\ LET m == CHOOSE j \in S : \A j2 \in S : j2 <= j
           IN  Strip(file[m])[Len(Strip(file[m]))] = ".rodata"

OtherSection(l) == IsSection(l) /\ l[Len(l)] \notin { ".text", ".rodata" }

ClaimSkipped(l) ==
    \/ Head(l) \in { ".set", ".include", ".size", ".align", ".balign", "glabel",
                     "jlabel", "/* Generated by spimdisasm" }
    \/ (Head(l) = ".L" /\ l[Len(l)] = ":")

ClaimNops(file) ==
    Cardinality({ i \in 1..Len(file) :
                    /\ Strip(file[i]) # << >>
                    /\ ~FlagAt(file, i)
                    /\ ~IsSection(Strip(file[i]))
                    /\ ~ClaimSkipped(Strip(file[i])) })

IsLabel(l) == l # << >> /\ Head(l) = "glabel"

\* the scan met line i
Reached(i) == scan.err = "" \/ scan.at >= i

\* C9: a scan that succeeds counts exactly the non-empty lines met while the
\* in-rodata flag is false that are neither section directives nor of a skipped
\* kind (no line met while the flag is true adds to the count), and a scan that
\* meets a section directive other than .text and .rodata fails there.
C9_SlotCount ==
    pc = "scanned" =>
        /\ scan.err = "" => scan.nops_needed = ClaimNops(asmFile)
        /\ \A i \in 1..Len(asmFile) :
              (Reached(i) /\ OtherSection(Strip(asmFile[i]))) =>
                  (scan.err = "UnsupportedSectionDirective" /\ scan.at = i)

C9_Witness ==
    /\ pc = "scanned" /\ scan.err = "" /\ scan.nops_needed = 1
    /\ \E i \in 1..Len(asmFile) : FlagAt(asmFile, i) /\ IsLabel(asmFile[i])

IsWord(l) == \E i \in 1..Len(l) : l[i] = ".word"

IsRodataSkip(l) == l # << >> /\ Head(l) \in { ".align", ".size" }

RodataLineAt(file, i) ==
    /\ FlagAt(file, i) /\ Strip(file[i]) # << >> /\ ~IsSection(Strip(file[i]))

\* the file has opened a data symbol before line i
OpenAt(file, i) ==
    \E j \in 1..(i - 1) : RodataLineAt(file, j) /\ IsLabel(Strip(file[j]))
                          /\ ~IsRodataSkip(Strip(file[j]))

\* the word directives that follow the most recent label of sym up to the
\* next label
ClaimWords(file, sym) ==
    LET L == { j \in 1..Len(file) : RodataLineAt(file, j) /\ IsLabel(Strip(file[j])) }
        M == { j \in L : Strip(file[j]) = << "glabel", sym >> }
        m == CHOOSE j \in M : \A j2 \in M : j2 <= j
    IN  Cardinality({ i \in (m + 1)..Len(file) :
                        /\ RodataLineAt(file, i)
                        /\ IsWord(Strip(file[i]))
                        /\ ~IsRodataSkip(Strip(file[i]))
                        /\ ~\E j \in L : m < j /\ j < i })

\* C10: every line met while the in-rodata flag is true is skipped, opens a
\* data symbol, adds 4 bytes to the open symbol, or fails the scan with the
\* unsupported-rodata-entry error; a word directive met before the file has
\* opened a symbol fails with that same error; on success each symbol's
\* word count is the number of word directives after its most recent label.
C10_RodataScan ==
    pc = "scanned" =>
        /\ \A i \in 1..Len(asmFile) :
              (Reached(i) /\ RodataLineAt(asmFile, i)) =>
                  LET l == Strip(asmFile[i]) IN
                  /\ scan.at = i => scan.err = "UnsupportedRodataEntry"
                  /\ (~IsRodataSkip(l) /\ ~IsLabel(l) /\ ~IsWord(l)) => scan.at = i
                  /\ (~IsRodataSkip(l) /\ IsWord(l) /\ ~OpenAt(asmFile, i))
                        => scan.at = i
        /\ scan.err = "" =>
              \A e \in Range(scan.rodata_entries) :
                  e.size = 4 * ClaimWords(asmFile, e.sym)

(***************************************************************************)
(* preprocess_c_file (lines 55-162).                                       *)
(* A line of the C file is a record: kind "macro" is a line that starts    *)
(* with INCLUDE_ASM and matches INCLUDE_ASM_REGEX, with fn its second       *)
(* group (the directory is always "asm"); kind "badmacro" starts with      *)
(* INCLUDE_ASM and does not match; kind "code" is any other line, with fn   *)
(* the function it defines for the compiler (<< >>: none); trail says that  *)
(* white space ends the line.                                               *)
(***************************************************************************)
NoFile == << << "<no file>" >> >>

\* line.rstrip()
RStripLine(line) == [line EXCEPT !.trail = FALSE]

\* asm_dir / f"{asm_function}.s"
AsmPath(fn) == [dir |-> "asm", stem |-> fn]

\* lines 146-149: the placeholder function
\* variant: one nop more than nops_needed
PlaceholderOneNopMore(fn, nops_needed) ==
    << [t |-> "asm void", name |-> FUNCTION_PREFIX \o fn] >>
        \o Repeat([t |-> "nop"], nops_needed + 1) \o << [t |-> "}"] >>

Placeholder(fn, nops_needed) ==
    << [t |-> "asm void", name |-> FUNCTION_PREFIX \o fn] >>
        \o Repeat([t |-> "nop"], nops_needed) \o << [t |-> "}"] >>

\* lines 151-157: one array per entry of rodata_entries
RodataArrays(rodata_entries) ==
    [i \in 1..Len(rodata_entries) |->
        [t |-> "const long", sym |-> rodata_entries[i].sym,
         words |-> rodata_entries[i].size \div 4,
         zeros |-> rodata_entries[i].size \div 4]]

PreInit ==
    [out_lines |-> << >>, asm_files |-> << >>, rodata_symbol |-> Unbound,
     err |-> "", at |-> 0]

\* lines 61-160: one line of the C file
\* variant: a macro whose file is missing is dropped silently
PreLineMissingDropped(raw, files, st, i) ==
    LET line == RStripLine(raw) IN
    IF line.kind = "code"
    THEN [st EXCEPT !.out_lines = Append(@, [t |-> "line", line |-> line])]
    ELSE IF line.kind = "badmacro"
    THEN [st EXCEPT !.err = "InvalidMacroSyntax", !.at = i]
    ELSE IF files[line.fn] = NoFile
    THEN st
    ELSE LET sc == ScanAsm(files[line.fn], st.rodata_symbol) IN
         IF sc.err # ""
         THEN [st EXCEPT !.err = sc.err, !.at = i,
                         !.asm_files = Append(@, AsmPath(line.fn))]
         ELSE [st EXCEPT
                 !.asm_files = Append(@, AsmPath(line.fn)),
                 !.rodata_symbol = sc.rodata_symbol,
                 !.out_lines = @ \o Placeholder(line.fn, sc.nops_needed)
                                 \o RodataArrays(sc.rodata_entries)]

PreLine(raw, files, st, i) ==
    LET line == RStripLine(raw) IN
    IF line.kind = "code"
    THEN [st EXCEPT !.out_lines = Append(@, [t |-> "line", line |-> line])]
    ELSE IF line.kind = "badmacro"
    THEN [st EXCEPT !.err = "InvalidMacroSyntax", !.at = i]
    ELSE IF files[line.fn] = NoFile
    THEN [st EXCEPT !.err = "MissingAsmFile", !.at = i]
    ELSE LET sc == ScanAsm(files[line.fn], st.rodata_symbol) IN
         IF sc.err # ""
         THEN [st EXCEPT !.err = sc.err, !.at = i,
                         !.asm_files = Append(@, AsmPath(line.fn))]
         ELSE [st EXCEPT
                 !.asm_files = Append(@, AsmPath(line.fn)),
                 !.rodata_symbol = sc.rodata_symbol,
                 !.out_lines = @ \o Placeholder(line.fn, sc.nops_needed)
                                 \o RodataArrays(sc.rodata_entries)]

RECURSIVE PreFrom(_, _, _, _)
PreFrom(lines, files, i, st) ==
    IF i > Len(lines) \/ st.err # "" THEN st
    ELSE PreFrom(lines, files, i + 1, PreLine(lines[i], files, st, i))

PreprocessCFile(lines, files) == PreFrom(lines, files, 1, PreInit)

(***************************************************************************)
(* SpecPre: preprocess_c_file applied to every translation unit of at most *)
(* MaxLines lines over a catalogue of assembly files.                      *)
(***************************************************************************)
NameF == << "f" >>
NameG == << "g" >>

AsmNames == { NameF, NameG }

FileText == << << "glabel", "f" >>, << "ws", "insn" >>, << "ws", "insn" >> >>

FileRodata ==
    << << ".section", ".rodata" >>, << "glabel", "D1" >>,
       << "/**/", ".word", "v" >>, << "/**/", ".word", "v" >>,
       << ".section", ".text" >>, << "glabel", "g" >>, << "ws", "insn" >> >>

FileWordFirst ==
    << << ".section", ".rodata" >>, << "/**/", ".word", "v" >>,
       << ".section", ".text" >>, << "ws", "insn" >> >>

FileCatalogue == { FileText, FileRodata, FileWordFirst }

CLine(kind, fn, trail) == [kind |-> kind, fn |-> fn, trail |-> trail]

CLinesPre ==
    { CLine("code", << >>, FALSE), CLine("code", << >>, TRUE),
      CLine("macro", NameF, FALSE), CLine("macro", NameG, TRUE),
      CLine("badmacro", << >>, FALSE) }

InitPre ==
    /\ tu \in SeqsUpTo(CLinesPre, MaxLines)
    /\ fs \in [AsmNames -> FileCatalogue \cup { NoFile }]
    /\ pre = PreInit
    /\ pc = "preprocess"
    /\ err = ""
    /\ asmFile = Idle /\ carry = Idle /\ scan = Idle /\ asmOut = Idle
    /\ obj_bytes = Idle /\ asm_files = Idle /\ compiled_elf = Idle
    /\ sh_names = Idle /\ precompiled_elf = Idle /\ k = 0
    /\ o_file = Idle /\ log = Idle

PreprocessOnly ==
    /\ pc = "preprocess"
    /\ pre' = PreprocessCFile(tu, fs)
    /\ pc' = "preprocessed"
    /\ UNCHANGED << asmFile, carry, scan, tu, fs, asmOut, err, obj_bytes,
                    asm_files, compiled_elf, sh_names, precompiled_elf, k,
                    o_file, log >>

NextPre == PreprocessOnly

SpecPre == InitPre /\ [][NextPre]_vars

IsMacro(line) == line.kind = "macro"

\* the placeholder block the claim describes for one macro invocation
ClaimBlock(fn, files) ==
    LET sc == ScanAsm(files[fn], Unbound) IN
    << [t |-> "asm void", name |-> << "mwccgap_" >> \o fn] >>
       \o [i \in 1..sc.nops_needed |-> [t |-> "nop"]]
       \o << [t |-> "}"] >>
       \o [i \in 1..Len(sc.rodata_entries) |->
             [t |-> "const long", sym |-> sc.rodata_entries[i].sym,
              words |-> sc.rodata_entries[i].size \div 4,
              zeros |-> sc.rodata_entries[i].size \div 4]]

ClaimPaths(lines) ==
    LET M == SelectSeq(lines, IsMacro)
    IN  [i \in 1..Len(M) |-> [dir |-> "asm", stem |-> M[i].fn]]

\* C8 as stated: the rewritten source is the input lines in order, every line
\* that is not a macro invocation unchanged and every macro invocation replaced
\* by its placeholder block; the path list has one entry per macro invocation.
C8_OutputShapeUnchanged ==
    (pc = "preprocessed" /\ pre.err = "") =>
        /\ pre.out_lines =
              Flatten([i \in 1..Len(tu) |->
                          IF IsMacro(tu[i]) THEN ClaimBlock(tu[i].fn, fs)
                          ELSE << [t |-> "line", line |-> tu[i]] >>])
        /\ pre.asm_files = ClaimPaths(tu)

\* C8 amended: the same, with every line that is not a macro invocation passed
\* through without the white space that ended it.
C8_OutputShape ==
    (pc = "preprocessed" /\ pre.err = "") =>
        /\ pre.out_lines =
              Flatten([i \in 1..Len(tu) |->
                          IF IsMacro(tu[i]) THEN ClaimBlock(tu[i].fn, fs)
                          ELSE << [t |-> "line",
                                   line |-> [tu[i] EXCEPT !.trail = FALSE]] >>])
        /\ pre.asm_files = ClaimPaths(tu)

C8_Witness ==
    /\ pc = "preprocessed" /\ pre.err = "" /\ Len(tu) = 2
    /\ IsMacro(tu[1]) /\ fs[tu[1].fn] = FileRodata
    /\ tu[2].kind = "code" /\ tu[2].trail

(***************************************************************************)
(* The ELF object model (mwccgap/elf.py, modelled from spec.md 3 and 4.1). *)
(* Section and symbol indices are 0-based, as in the code: section i is     *)
(* sections[i + 1], symbol i is symbols[i + 1].                             *)
(***************************************************************************)
Section(kind, name) ==
    [kind |-> kind, name |-> name, function_name |-> << >>, data |-> << >>,
     sh_name |-> 0, sh_link |-> 0, sh_info |-> 0, relocations |-> << >>]

TextSection(function_name, data) ==
    [Section("text", "") EXCEPT !.function_name = function_name, !.data = data]

RodataSection(data) == [Section("rodata", ".rodata") EXCEPT !.data = data]

RelocationSection(name, sh_info, indices) ==
    [Section("rel", name) EXCEPT
        !.sh_info = sh_info,
        !.relocations = [i \in 1..Len(indices) |-> [symbol_index |-> indices[i]]]]

\* orig is the name the symbol had before the rewriter put FUNCTION_PREFIX in
\* front of it (no code reads it); oid tells Symbol objects apart (0: one the compiler made): the pipeline puts
\* the assembled unit's own Symbol objects into the compiled symbol table
Symbol(name, bind, st_shndx, st_name) ==
    [name |-> name, bind |-> bind, st_shndx |-> st_shndx, st_name |-> st_name,
     oid |-> 0, orig |-> name]

NullSymbol == Symbol(<< >>, 0, 0, 0)

NoElf ==
    [sections |-> << >>, symbols |-> << >>, sh_info |-> 0, symtab_index |-> 0,
     shstrtab |-> << >>]

IsText(sec) == sec.kind = "text"
IsRodata(sec) == sec.kind = "rodata"
IsRel(sec) == sec.kind = "rel"

\* Elf.get_functions(), Elf.rodata_sections, Elf.get_relocations()
GetFunctions(elf) == SelectSeq(elf.sections, IsText)
RodataSections(elf) == SelectSeq(elf.sections, IsRodata)
GetRelocations(elf) == SelectSeq(elf.sections, IsRel)

\* Elf.add_sh_symbol(name): the offset of name in the section-header string
\* table, appended when it is not there
AddShSymbol(elf, name) ==
    IF \E i \in 1..Len(elf.shstrtab) : elf.shstrtab[i] = name
    THEN [elf |-> elf,
          off |-> CHOOSE i \in 1..Len(elf.shstrtab) : elf.shstrtab[i] = name]
    ELSE [elf |-> [elf EXCEPT !.shstrtab = Append(@, name)],
          off |-> Len(elf.shstrtab) + 1]

InsertAt(s, pos, x) == SubSeq(s, 1, pos - 1) \o << x >> \o SubSeq(s, pos, Len(s))

\* Elf.add_symbol(symbol, force): the index the symbol occupies.  Without
\* force a symbol of the same name is reused; a local symbol is inserted at
\* the local/global boundary, which moves up by one; a global is appended.
AddSymbol(elf, symbol, force) ==
    IF ~force /\ \E i \in 1..Len(elf.symbols) : elf.symbols[i].name = symbol.name
    THEN [elf |-> elf, inserted |-> 0,
          idx |-> (CHOOSE i \in 1..Len(elf.symbols) :
                      /\ elf.symbols[i].name = symbol.name
                      /\ \A j \in 1..(i - 1) : elf.symbols[j].name # symbol.name) - 1]
    ELSE IF symbol.bind = 0
    THEN [elf |-> [elf EXCEPT !.symbols = InsertAt(@, elf.sh_info + 1, symbol),
                              !.sh_info = @ + 1],
          inserted |-> 1,
          idx |-> elf.sh_info]
    ELSE [elf |-> [elf EXCEPT !.symbols = Append(@, symbol)],
          inserted |-> 0,
          idx |-> Len(elf.symbols)]

\* Elf.add_section(section)
AddSection(elf, section) == [elf EXCEPT !.sections = Append(@, section)]

\* object bytes: empty, or the image of an object; Elf(bytes) and Elf.pack()
EmptyBytes == [empty |-> TRUE, image |-> NoElf]
ParseElf(bytes) == bytes.image
Pack(elf) == [empty |-> FALSE, image |-> elf]

(***************************************************************************)
(* The external compiler, as far as the pipeline reads its output: one     *)
(* Text section per function of the source (the placeholder's payload is   *)
(* its nops), a .rodata section after a placeholder that declares arrays,  *)
(* a .rel.text section for the compiled C code, and the symbol table with  *)
(* its locals first.                                                       *)
(***************************************************************************)
IsArray(item) == item.t = "const long"
IsNop(item) == item.t = "nop"

\* the nops that follow a placeholder's header
RECURSIVE NopsFrom(_, _)
NopsFrom(src, i) ==
    IF i > Len(src) \/ ~IsNop(src[i]) THEN << >>
    ELSE << "nop" >> \o NopsFrom(src, i + 1)

\* the words of the arrays declared from position i on
RECURSIVE WordsFrom(_, _)
WordsFrom(src, i) ==
    IF i > Len(src) \/ ~IsArray(src[i]) THEN << >>
    ELSE Repeat("zero", src[i].words) \o WordsFrom(src, i + 1)

\* the sections one item of the source gives rise to
ItemSections(src, i) ==
    LET item == src[i] IN
    IF item.t = "asm void"
    THEN << TextSection(item.name, NopsFrom(src, i + 1)) >>
    ELSE IF IsArray(item) /\ ~IsArray(src[i - 1])
    THEN << RodataSection(WordsFrom(src, i)) >>
    ELSE IF item.t = "line" /\ item.line.kind = "code" /\ item.line.fn # << >>
    THEN << TextSection(item.line.fn, << "c" >>) >>
    ELSE << >>

\* the global symbols one item of the source gives rise to
ItemSymbols(src, i, shndx) ==
    LET item == src[i] IN
    IF item.t = "asm void"
    THEN << [Symbol(item.name, 1, shndx, 1) EXCEPT !.orig = DropPrefix(item.name)] >>
    ELSE IF IsArray(item) THEN << Symbol(<< item.sym >>, 1, shndx, 1) >>
    ELSE IF item.t = "line" /\ item.line.kind = "code" /\ item.line.fn # << >>
    THEN << Symbol(item.line.fn, 1, shndx, 1) >>
    ELSE << >>

HasNative(src) ==
    \E i \in 1..Len(src) :
        src[i].t = "line" /\ src[i].line.kind = "code" /\ src[i].line.fn # << >>

CompilerOutput(src) ==
    LET body == Flatten([i \in 1..Len(src) |-> ItemSections(src, i)])
        secs == << Section("null", "") >> \o body
        \* the section the item at i is defined in: the last one made so far
        shndx(i) == Len(Flatten([j \in 1..i |-> ItemSections(src, j)]))
        globals == Flatten([i \in 1..Len(src) |-> ItemSymbols(src, i, shndx(i))])
        native == HasNative(src)
        syms == << NullSymbol, Symbol(<< "loc" >>, 0, 1, 1) >> \o globals
                  \o (IF native THEN << Symbol(<< "ext" >>, 1, 0, 1) >> ELSE << >>)
        firstNative == CHOOSE i \in 1..Len(body) :
                          /\ body[i].data = << "c" >>
                          /\ \A j \in 1..(i - 1) : body[j].data # << "c" >>
        rels == IF native
                THEN << RelocationSection(".rel.text", firstNative,
                                          << 1, Len(syms) - 1 >>) >>
                ELSE << >>
        all == secs \o rels \o << Section("symtab", ".symtab") >>
        named == [i \in 1..Len(syms) |->
                     IF syms[i].name = << >> THEN syms[i]
                     ELSE [syms[i] EXCEPT !.st_name = 8 * i]]
    IN  [empty |-> FALSE,
         image |-> [sections |-> [i \in 1..Len(all) |->
                                     IF IsRel(all[i])
                                     THEN [all[i] EXCEPT !.sh_link = Len(all) - 1]
                                     ELSE all[i]],
                    symbols |-> named,
                    sh_info |-> 2,
                    symtab_index |-> Len(all) - 1,
                    shstrtab |-> << "", ".symtab", ".rodata" >>]]

(***************************************************************************)
(* process_c_file, after the compile of the stubbed source: the rename     *)
(* (lines 284-289) and the splice of one assembly file (lines 291-397).    *)
(***************************************************************************)
\* lines 286-289
RenameSymbol(symbol) ==
    IF StartsWith(symbol.name, FUNCTION_PREFIX)
    THEN [symbol EXCEPT !.name = DropPrefix(symbol.name),
                        !.st_name = @ + Len(FUNCTION_PREFIX)]
    ELSE symbol

RenameSymbols(elf) ==
    [elf EXCEPT !.symbols = [i \in 1..Len(elf.symbols) |-> RenameSymbol(elf.symbols[i])]]

\* lines 300-307: the index of the placeholder's Text section, -1 when none
FindTextSection(elf, function) ==
    LET S == { i \in 1..Len(elf.sections) :
                 /\ IsText(elf.sections[i])
                 /\ elf.sections[i].function_name = FUNCTION_PREFIX \o function }
    IN  IF S = {} THEN -1 ELSE (CHOOSE i \in S : \A j \in S : i <= j) - 1

\* lines 309-320: the .rodata section met after the Text section and before
\* the next section whose name is empty, -1 when none
FindRodataSection(elf, text_section_index) ==
    LET S == { i \in (text_section_index + 2)..Len(elf.sections) :
                 elf.sections[i].name \in { "", ".rodata" } }
    IN  IF S = {} THEN -1
        ELSE LET m == CHOOSE i \in S : \A j \in S : i <= j
             IN  IF elf.sections[m].name = ".rodata" THEN m - 1 ELSE -1

\* line 338: asm_text[:compiled_function_length]
\* variant: the assembled text is not cut
TruncateNot(asm_text, compiled_function_length) == asm_text

Truncate(asm_text, compiled_function_length) ==
    SubSeq(asm_text, 1, compiled_function_length)

\* symbol.st_shndx = text_section_index, seen through every reference to the
\* object
SetShndx(symbols, oid, shndx) ==
    [i \in 1..Len(symbols) |->
        IF symbols[i].oid = oid THEN [symbols[i] EXCEPT !.st_shndx = shndx]
        ELSE symbols[i]]

\* line 370: force=i == 1
Force(i) == i = 1

\* lines 364-376: the entries of relocation record i, from entry j on
RECURSIVE RelocEntries(_, _, _, _, _)
RelocEntries(st, rels, j, i, text_section_index) ==
    IF j > Len(rels) THEN [st |-> st, rels |-> rels]
    ELSE
      LET symbol == st.asym[rels[j].symbol_index + 1]
          r == AddSymbol(st.elf, symbol, Force(i))
          nst == [st EXCEPT
                    !.local_syms_inserted = @ + (IF symbol.bind = 0 THEN 1 ELSE 0),
                    !.inserted = @ + r.inserted,
                    !.reloc_symbols = @ \cup { symbol.name },
                    !.elf = IF i = 1
                            THEN [r.elf EXCEPT !.symbols =
                                     SetShndx(@, symbol.oid, text_section_index)]
                            ELSE r.elf,
                    !.asym = IF i = 1
                             THEN SetShndx(@, symbol.oid, text_section_index)
                             ELSE @]
      IN  RelocEntries(nst, [rels EXCEPT ![j].symbol_index = r.idx], j + 1, i,
                       text_section_index)

\* lines 355-378: the relocation records of the assembled unit, from record i
RECURSIVE RelocRecords(_, _, _, _, _)
RelocRecords(st, records, i, text_section_index, rodata_section_index) ==
    IF i >= Len(records) \/ st.err # "" THEN st
    ELSE IF i = 1 /\ ~st.shn.rodata_bound
    THEN [st EXCEPT !.err = "UnboundLocalError"]
    ELSE
      LET head == [records[i + 1] EXCEPT
                      !.sh_link = st.elf.symtab_index,
                      !.sh_name = IF i = 0 THEN st.shn.text ELSE st.shn.rodata,
                      !.sh_info = IF i = 0 THEN text_section_index
                                  ELSE rodata_section_index]
          done == RelocEntries(st, head.relocations, 1, i, text_section_index)
      IN  RelocRecords(
              [done.st EXCEPT
                  !.elf = AddSection(@, [head EXCEPT !.relocations = done.rels])],
              records, i + 1, text_section_index, rodata_section_index)

\* lines 380-390
Bump(rel, initial_sh_info_value, local_syms_inserted) ==
    [rel EXCEPT !.relocations =
        [y \in 1..Len(rel.relocations) |->
            IF rel.relocations[y].symbol_index >= initial_sh_info_value
            THEN [symbol_index |->
                     rel.relocations[y].symbol_index + local_syms_inserted]
            ELSE rel.relocations[y]]]

UpdateRelocations(elf, local_syms_inserted, initial_sh_info_value, rodata_section_index) ==
    IF local_syms_inserted > 0
    THEN [elf EXCEPT !.sections =
            [x \in 1..Len(elf.sections) |->
                IF IsRel(elf.sections[x])
                   /\ elf.sections[x].sh_info # rodata_section_index
                THEN Bump(elf.sections[x], initial_sh_info_value,
                          local_syms_inserted)
                ELSE elf.sections[x]]]
    ELSE elf

\* lines 392-397: the symbols of the assembled unit its relocations do not
\* name, from symbol j on
RECURSIVE CarrySymbols(_, _, _, _)
CarrySymbols(st, j, text_section_index, reloc_symbols) ==
    IF j > Len(st.asym) THEN st
    ELSE IF st.asym[j].st_name = 0 \/ st.asym[j].name \in reloc_symbols
    THEN CarrySymbols(st, j + 1, text_section_index, reloc_symbols)
    ELSE LET symbol == [st.asym[j] EXCEPT !.st_shndx = text_section_index]
             r == AddSymbol(st.elf, symbol, FALSE)
         IN  CarrySymbols([st EXCEPT !.elf = r.elf, !.inserted = @ + r.inserted],
                          j + 1, text_section_index, reloc_symbols)

\* lines 292-397: one turn of the loop over asm_files.  bytes is what the
\* assembler wrote for the file, n the turn.  The result holds the compiled
\* object as the turn left it, also when an exception ended the turn.
SpliceOne(elf, bytes, function, shn, n) ==
    LET st0 == [elf |-> elf, shn |-> shn, err |-> "", asym |-> << >>,
                reloc_symbols |-> {}, local_syms_inserted |-> 0, inserted |-> 0,
                text_section_index |-> -1, rodata_section_index |-> -1,
                located |-> FALSE, asm_len |-> 0]
    IN
    IF bytes.empty THEN [st0 EXCEPT !.err = "AssembleFailed"]
    ELSE
    LET assembled_elf == ParseElf(bytes)
        asm_functions == GetFunctions(assembled_elf)
        text_section_index == FindTextSection(elf, function)
        rodata_section_index == FindRodataSection(elf, text_section_index)
        has_rodata == rodata_section_index > -1
    IN
    IF Len(asm_functions) # 1 THEN [st0 EXCEPT !.err = "UnsupportedAsmShape"]
    ELSE IF text_section_index = -1 THEN [st0 EXCEPT !.err = "FunctionNotFound"]
    ELSE
    LET asm_text == asm_functions[1].data
        compiled_function_length == Len(elf.sections[text_section_index + 1].data)
        st1 == [st0 EXCEPT !.text_section_index = text_section_index,
                           !.rodata_section_index = rodata_section_index,
                           !.located = TRUE, !.asm_len = Len(asm_text)]
    IN
    IF has_rodata /\ Len(RodataSections(assembled_elf)) # 1
    THEN [st1 EXCEPT !.err = "ExpectedOneRodata"]
    ELSE IF ~(Len(asm_text) >= compiled_function_length)
    THEN [st1 EXCEPT !.err = "InsufficientAssembly"]
    ELSE
    LET elf1 == [elf EXCEPT !.sections[text_section_index + 1].data =
                    Truncate(asm_text, compiled_function_length)]
        elf2 == IF has_rodata
                THEN [elf1 EXCEPT !.sections[rodata_section_index + 1].data =
                         RodataSections(assembled_elf)[1].data]
                ELSE elf1
        sh == AddShSymbol(elf2, ".rel.rodata")
        st2 == IF has_rodata
               THEN [st1 EXCEPT !.elf = sh.elf,
                                !.shn = [@ EXCEPT !.rodata = sh.off,
                                                  !.rodata_bound = TRUE]]
               ELSE [st1 EXCEPT !.elf = elf2]
        relocation_records == GetRelocations(assembled_elf)
    IN
    IF ~(Len(relocation_records) < 3)
    THEN [st2 EXCEPT !.err = "TooManyRelocations"]
    ELSE
    LET initial_sh_info_value == elf.sh_info
        st3 == [st2 EXCEPT !.asym =
                   [j \in 1..Len(assembled_elf.symbols) |->
                       [assembled_elf.symbols[j] EXCEPT !.oid = 10 * n + j]]]
        st4 == RelocRecords(st3, relocation_records, 0, text_section_index,
                            rodata_section_index)
    IN
    IF st4.err # "" THEN st4
    ELSE
    LET st5 == [st4 EXCEPT !.elf =
                   UpdateRelocations(@, st4.local_syms_inserted,
                                     initial_sh_info_value, rodata_section_index)]
    IN  CarrySymbols(st5, 1, text_section_index, st5.reloc_symbols)

(***************************************************************************)
(* process_c_file as a state machine (lines 200-401).                      *)
(***************************************************************************)
Absent == [exists |-> FALSE, bytes |-> EmptyBytes]

LogInit ==
    [short |-> FALSE, stub_compiles |-> 0, assembles |-> 0, splices |-> 0,
     located |-> FALSE, before |-> NoElf, text_section_index |-> -1,
     rodata_section_index |-> -1, inserted |-> 0, asm_len |-> 0]

\* the C file as the compiler reads it
TuSource(lines) == [i \in 1..Len(lines) |-> [t |-> "line", line |-> lines[i]]]

FunctionNames(elf) ==
    LET F == GetFunctions(elf) IN [i \in 1..Len(F) |-> F[i].function_name]

\* the compiler rejects a source that defines a function twice
Compiles(src) ==
    LET N == FunctionNames(ParseElf(CompilerOutput(src)))
    IN  \A i, j \in 1..Len(N) : N[i] = N[j] => i = j

\* lines 212-235
Precompile ==
    /\ pc = "start"
    /\ \E out \in { "none", "empty", "object" } :
          IF out = "object" /\ Compiles(TuSource(tu))
          THEN /\ obj_bytes' = CompilerOutput(TuSource(tu))
               /\ precompiled_elf' = ParseElf(CompilerOutput(TuSource(tu)))
               /\ pc' = "stub"
               /\ err' = err
          ELSE /\ pc' = "failed"
               /\ err' = "PrecompileFailed"
               /\ UNCHANGED << obj_bytes, precompiled_elf >>
    /\ UNCHANGED << asmFile, carry, scan, tu, fs, asmOut, pre, asm_files,
                    compiled_elf, sh_names, k, o_file, log >>

\* line 244: [x for x in asm_files if x.stem not in c_functions]
\* variant: no file is filtered out
FilterNothing(files, c_functions) == files

FilterAsmFiles(files, c_functions) ==
    LET Keep(x) == x.stem \notin Range(c_functions) IN SelectSeq(files, Keep)

\* lines 238-251
Stub ==
    /\ pc = "stub"
    /\ pre' = PreprocessCFile(tu, fs)
    /\ IF pre'.err # ""
       THEN /\ pc' = "failed"
            /\ err' = pre'.err
            /\ UNCHANGED << asm_files, o_file, log >>
       ELSE /\ asm_files' = FilterAsmFiles(pre'.asm_files,
                                           FunctionNames(precompiled_elf))
            /\ err' = err
            /\ IF Len(asm_files') = 0
               THEN /\ o_file' = [exists |-> TRUE, bytes |-> obj_bytes]
                    /\ log' = [log EXCEPT !.short = TRUE]
                    /\ pc' = "done"
               ELSE /\ pc' = "compile"
                    /\ UNCHANGED << o_file, log >>
    /\ UNCHANGED << asmFile, carry, scan, tu, fs, asmOut, obj_bytes,
                    compiled_elf, sh_names, precompiled_elf, k >>

\* lines 254-282
Compile ==
    /\ pc = "compile"
    /\ log' = [log EXCEPT !.stub_compiles = @ + 1]
    /\ \E out \in { "none", "empty", "object" } :
          IF out = "object" /\ Compiles(pre.out_lines)
          THEN /\ obj_bytes' = CompilerOutput(pre.out_lines)
               /\ compiled_elf' = ParseElf(CompilerOutput(pre.out_lines))
               /\ pc' = "rename"
               /\ err' = err
          ELSE /\ pc' = "failed"
               /\ err' = "CompileFailed"
               /\ UNCHANGED << obj_bytes, compiled_elf >>
    /\ UNCHANGED << asmFile, carry, scan, tu, fs, asmOut, pre, asm_files,
                    sh_names, precompiled_elf, k, o_file >>

\* lines 284-289
Rename ==
    /\ pc = "rename"
    /\ LET sh == AddShSymbol(compiled_elf, ".rel.text")
       IN  /\ sh_names' = [sh_names EXCEPT !.text = sh.off]
           /\ compiled_elf' = RenameSymbols(sh.elf)
    /\ pc' = "splice"
    /\ k' = 1
    /\ UNCHANGED << asmFile, carry, scan, tu, fs, asmOut, err, pre, obj_bytes,
                    asm_files, precompiled_elf, o_file, log >>

\* lines 291-397: one turn of the loop
Splice ==
    /\ pc = "splice"
    /\ LET function == asm_files[k].stem
           r == SpliceOne(compiled_elf, asmOut[function], function, sh_names, k)
       IN  /\ compiled_elf' = r.elf
           /\ sh_names' = r.shn
           /\ err' = r.err
           /\ pc' = IF r.err # "" THEN "failed"
                    ELSE IF k = Len(asm_files) THEN "write" ELSE "splice"
           /\ log' = [log EXCEPT
                        !.assembles = @ + 1,
                        !.splices = @ + 1,
                        !.located = r.located,
                        !.before = compiled_elf,
                        !.text_section_index = r.text_section_index,
                        !.rodata_section_index = r.rodata_section_index,
                        !.inserted = r.inserted,
                        !.asm_len = r.asm_len]
    /\ k' = k + 1
    /\ UNCHANGED << asmFile, carry, scan, tu, fs, asmOut, pre, obj_bytes,
                    asm_files, precompiled_elf, o_file >>

\* lines 399-400: o_file.open("wb") creates the file, or empties it
OpenOutput ==
    /\ pc = "write"
    /\ o_file' = [exists |-> TRUE, bytes |-> EmptyBytes]
    /\ pc' = "pack"
    /\ UNCHANGED << asmFile, carry, scan, tu, fs, asmOut, err, pre, obj_bytes,
                    asm_files, compiled_elf, sh_names, precompiled_elf, k, log >>

\* line 401: f.write(compiled_elf.pack())
PackWrite ==
    /\ pc = "pack"
    /\ \E packed \in BOOLEAN :
          IF packed
          THEN /\ o_file' = [exists |-> TRUE, bytes |-> Pack(compiled_elf)]
               /\ pc' = "done"
               /\ err' = err
          ELSE /\ pc' = "failed"
               /\ err' = "PackFailed"
               /\ o_file' = o_file
    /\ UNCHANGED << asmFile, carry, scan, tu, fs, asmOut, pre, obj_bytes,
                    asm_files, compiled_elf, sh_names, precompiled_elf, k, log >>

Next ==
    \/ Precompile
    \/ Stub
    \/ Compile
    \/ Rename
    \/ Splice
    \/ OpenOutput
    \/ PackWrite

(***************************************************************************)
(* The assembler's output for a file (external): one or more functions of  *)
(* textLen words, rodata sections, relocation records, and a symbol table  *)
(* of a local label, the function and an undefined global.                 *)
(***************************************************************************)
AsmWords(n) == [i \in 1..n |-> << "w1", "w2", "w3", "w4", "w5", "w6" >>[i]]

AsmObject(fn, textLen, nfunc, nrodata, records) ==
    LET secs == << Section("null", "") >>
                   \o [i \in 1..nfunc |-> TextSection(fn, AsmWords(textLen))]
                   \o [i \in 1..nrodata |-> RodataSection(<< "j1", "j2", "j3" >>)]
                   \o records \o << Section("symtab", ".symtab") >>
    IN  [empty |-> FALSE,
         image |-> [sections |-> secs,
                    symbols |-> << NullSymbol, Symbol(<< ".L" >>, 0, 1, 1),
                                   Symbol(fn, 1, 1, 4), Symbol(<< "ext" >>, 1, 0, 6) >>,
                    sh_info |-> 2,
                    symtab_index |-> Len(secs) - 1,
                    shstrtab |-> << "", ".symtab", ".rel.text", ".rel.rodata" >>]]

RelText(indices) == RelocationSection(".rel.text", 1, indices)
RelRodata(indices) == RelocationSection(".rel.rodata", 2, indices)

NoAsm == EmptyBytes

\* a few assembled units, for the runs over whole translation units
AsmObjectsFew(fn) ==
    { NoAsm,
      AsmObject(fn, 2, 1, 1, << RelText(<< 3 >>) >>),
      AsmObject(fn, 2, 1, 1, << RelText(<< 1 >>), RelRodata(<< 1 >>) >>),
      AsmObject(fn, 0, 1, 1, << >>),
      AsmObject(fn, 2, 2, 1, << >>) }

\* the entries of a record: symbol 1 is the local label, 3 the global
EntryLists == UNION { [1..m -> { 1, 3 }] : m \in 1..MaxEntries }

RecordShapes ==
    { << >> }
    \cup { << RelText(e) >> : e \in EntryLists }
    \cup { << RelRodata(e) >> : e \in EntryLists }
    \cup { << RelText(e[1]), RelRodata(e[2]) >> : e \in EntryLists \X EntryLists }
    \cup { << RelText(<< 3 >>), RelRodata(<< 1 >>), RelRodata(<< 1 >>) >> }

\* every assembled unit of one function within the bounds
AsmObjectsAll(fn) ==
    { AsmObject(fn, n, 1, r, recs) :
        n \in 0..MaxAsmText, r \in 0..1, recs \in RecordShapes }

MacroNames(lines) == { lines[i].fn : i \in { j \in 1..Len(lines) : IsMacro(lines[j]) } }

InitRun ==
    /\ pc = "start"
    /\ err = ""
    /\ pre = PreInit
    /\ obj_bytes = EmptyBytes
    /\ precompiled_elf = NoElf
    /\ asm_files = << >>
    /\ compiled_elf = NoElf
    /\ sh_names = [text |-> 0, rodata |-> 0, rodata_bound |-> FALSE]
    /\ k = 0
    /\ o_file = Absent
    /\ log = LogInit
    /\ asmFile = Idle /\ carry = Idle /\ scan = Idle

\* Spec: every translation unit of at most MaxUnitLines lines
UnitLines ==
    { CLine("code", NameF, FALSE), CLine("code", FUNCTION_PREFIX \o NameF, FALSE),
      CLine("macro", NameF, FALSE), CLine("macro", NameG, FALSE),
      CLine("badmacro", << >>, FALSE) }

\* the files and the assembler's outputs that matter to a unit: a name no
\* macro refers to has no file, and a missing file is never assembled
FileChoices(n, lines, file) ==
    IF n \in MacroNames(lines) THEN { file, NoFile } ELSE { NoFile }

AsmChoices(n, file, objects) == IF file = NoFile THEN { NoAsm } ELSE objects

Init ==
    /\ InitRun
    /\ tu \in SeqsUpTo(UnitLines, MaxUnitLines)
    /\ \E ff \in FileChoices(NameF, tu, FileText) :
       \E fg \in FileChoices(NameG, tu, FileRodata) :
       \E af \in AsmChoices(NameF, ff, AsmObjectsFew(NameF)) :
       \E ag \in AsmChoices(NameG, fg, AsmObjectsFew(NameG)) :
          /\ fs = [n \in AsmNames |-> IF n = NameF THEN ff ELSE fg]
          /\ asmOut = [n \in AsmNames |-> IF n = NameF THEN af ELSE ag]

Spec == Init /\ [][Next]_vars

\* SpecSplice: one function spliced, over every assembled unit within bounds
SpliceUnits ==
    { << CLine("macro", NameG, FALSE) >>,
      << CLine("code", NameF, FALSE), CLine("macro", NameG, FALSE) >>,
      << CLine("code", NameG, FALSE), CLine("macro", NameG, FALSE) >> }

InitSplice ==
    /\ InitRun
    /\ tu \in SpliceUnits
    /\ \E fg \in { FileText, FileRodata } :
       \E ag \in AsmObjectsAll(NameG) :
          /\ fs = [n \in AsmNames |-> IF n = NameF THEN NoFile ELSE fg]
          /\ asmOut = [n \in AsmNames |-> IF n = NameF THEN NoAsm ELSE ag]

SpecSplice == InitSplice /\ [][Next]_vars

(***************************************************************************)
(* The claims about process_c_file.                                        *)
(***************************************************************************)
Ended == pc \in { "done", "failed" }

\* the function of the last turn of the splice loop, and its assembled text
LastFunction == asm_files[k - 1].stem
LastAsmText == GetFunctions(ParseElf(asmOut[LastFunction]))[1].data

\* C1: a turn of the splice loop that located its placeholder either ends with
\* the not-enough-assembly error, the assembled text being shorter and the
\* compiled object untouched, or leaves the placeholder's Text section as long
\* as it was; on success the payload is the assembled text cut to that length.
C1_LengthInvariant ==
    (log.splices > 0 /\ log.located) =>
        LET t == log.text_section_index + 1
            before == log.before.sections[t].data
            after == compiled_elf.sections[t].data
        IN  /\ \/ /\ err = "InsufficientAssembly"
                  /\ log.asm_len < Len(before)
                  /\ compiled_elf = log.before
               \/ /\ err # "InsufficientAssembly"
                  /\ Len(after) = Len(before)
            /\ err = "" =>
                  /\ log.asm_len >= Len(before)
                  /\ after = SubSeq(LastAsmText, 1, Len(before))

C1_Witness ==
    /\ log.splices > 0 /\ log.located /\ err = "" /\ pc = "write"
    /\ log.asm_len > Len(compiled_elf.sections[log.text_section_index + 1].data)
    /\ Len(compiled_elf.sections[log.text_section_index + 1].data) > 0

\* C2: a run that ends with an error never creates, empties or writes o_file;
\* a run that ends well leaves the complete object in it.
C2_AllOrNothing ==
    /\ pc = "failed" => o_file = Absent
    /\ pc = "done" => (o_file.exists /\ ~o_file.bytes.empty)

ShortCircuitCase ==
    MacroNames(tu) \subseteq Range(FunctionNames(precompiled_elf))

\* C3: when the unit has no macro, or every macro's function is among the Text
\* sections of the precompiled object, the run compiles no stubbed source,
\* assembles and splices nothing, and what it writes is the precompiled
\* object's bytes; when an assembly file remains after the filter the
\* short-circuit is not taken.
C3_ShortCircuit ==
    /\ (pc \notin { "start", "failed" } /\ ShortCircuitCase) =>
          /\ log.stub_compiles = 0 /\ log.assembles = 0 /\ log.splices = 0
          /\ pc \in { "stub", "done" }
          /\ pc = "done" =>
                /\ o_file = [exists |-> TRUE, bytes |-> obj_bytes]
                /\ obj_bytes = CompilerOutput(TuSource(tu))
                /\ log.short
    /\ Len(asm_files) > 0 =>
          /\ ~log.short
          /\ pc = "done" => o_file.bytes = Pack(compiled_elf)

C3_Witness ==
    /\ pc = "done" /\ log.short /\ MacroNames(tu) # {}
    /\ o_file.bytes = CompilerOutput(TuSource(tu))

\* the pre-splice local/global boundary and the relocation entries that were
\* in the compiled object before the last splice
C4_Shifted(inserted) ==
    /\ compiled_elf.sh_info = log.before.sh_info + inserted
    /\ \A x \in 1..Len(log.before.sections) :
          IsRel(log.before.sections[x]) =>
              \A y \in 1..Len(log.before.sections[x].relocations) :
                  LET old == log.before.sections[x].relocations[y].symbol_index
                      new == compiled_elf.sections[x].relocations[y].symbol_index
                  IN  new = IF old >= log.before.sh_info THEN old + inserted ELSE old

\* C4: after a splice that newly inserted k local symbols, every relocation
\* entry of the compiled object whose symbol index was at or above the
\* pre-splice boundary is k higher, no other entry has changed, and the
\* symbol table's sh_info is k higher.
C4_SymbolBoundary ==
    (log.splices > 0 /\ err = "") => C4_Shifted(log.inserted)

\* C5: after a splice every relocation section of the compiled object targets
\* a section that exists and is Text or Read-only-data; a carried-over Text
\* record targets the located placeholder, a carried-over Read-only-data
\* record the located paired .rodata section.
C5_RelocationTargets ==
    (log.splices > 0 /\ err = "") =>
        \A x \in 1..Len(compiled_elf.sections) :
            LET sec == compiled_elf.sections[x] IN
            IsRel(sec) =>
                /\ sec.sh_info \in 0..(Len(compiled_elf.sections) - 1)
                /\ compiled_elf.sections[sec.sh_info + 1].kind \in { "text", "rodata" }
                /\ x > Len(log.before.sections) =>
                      /\ sec.name = ".rel.text" =>
                            sec.sh_info = log.text_section_index
                      /\ sec.name = ".rel.rodata" =>
                            /\ log.rodata_section_index > -1
                            /\ sec.sh_info = log.rodata_section_index

MissingLines == { i \in 1..Len(tu) : IsMacro(tu[i]) /\ fs[tu[i].fn] = NoFile }

FirstMissing == CHOOSE i \in MissingLines : \A j \in MissingLines : i <= j

\* C6 as stated: when some macro line resolves to a file that does not exist,
\* preprocess_c_file raises the missing-file error, the run fails and writes
\* no output.
C6_MissingRejected ==
    (MissingLines # {} /\ Ended /\ err # "PrecompileFailed") =>
        /\ pc = "failed" /\ err = "MissingAsmFile"
        /\ o_file = Absent

\* C6 amended: such a run never gets past preprocess_c_file and never writes
\* o_file; preprocess_c_file fails at or before the first such line, with the
\* missing-file error when it fails at that line; this holds also when the
\* precompiled object has a Text section for the function.
C6_MissingRejectedUnlessEarlier ==
    MissingLines # {} =>
        /\ o_file = Absent
        /\ pc \in { "start", "stub", "failed" }
        /\ (pc = "failed" /\ err # "PrecompileFailed") =>
              /\ pre.err = err
              /\ pre.at <= FirstMissing
              /\ pre.at = FirstMissing => err = "MissingAsmFile"

C6_Witness ==
    /\ pc = "failed" /\ err = "MissingAsmFile"
    /\ \E i \in MissingLines : tu[i].fn \in Range(FunctionNames(precompiled_elf))

\* C7: in the object written by a run that did not short-circuit no symbol
\* name starts with FUNCTION_PREFIX, and two symbols have the same name only
\* if they had the same name before the prefix was applied.
C7_NameRestoration ==
    (pc = "done" /\ ~log.short) =>
        LET S == o_file.bytes.image.symbols IN
        /\ \A i \in 1..Len(S) : ~StartsWith(S[i].name, FUNCTION_PREFIX)
        /\ \A i, j \in 1..Len(S) : S[i].name = S[j].name => S[i].orig = S[j].orig

====
